---- MODULE Spec2Model ----
(***************************************************************************)
(* Model of src/Main.py: a node that serves the files of its Uploads       *)
(* directory over TCP (startServer / handleClient) and fetches files from  *)
(* peers into its Downloads directory (downloadFileUi), comparing SHA-256  *)
(* digests afterwards (calculateFileHash).                                 *)
(*                                                                         *)
(* One serving process is modelled in full: its main flow (the module top  *)
(* level, lines 249-253), its listener thread and one handler thread per   *)
(* accepted connection.  The peers that connect to it are Fetch Client     *)
(* invocations (downloadFileUi running in other processes, each with its   *)
(* own working directory) and raw TCP peers that send arbitrary payloads.  *)
(*                                                                         *)
(* File contents are sequences of blocks; one block stands for             *)
(* chunkSize \div BlocksPerChunk bytes, so a chunk is BlocksPerChunk       *)
(* blocks.                                                                 *)
(***************************************************************************)
EXTENDS Integers, Sequences, FiniteSets, TLC

(* ------------------------------ bounds -------------------------------- *)
MaxBlocks == 4
BlocksPerChunk == 2
LongNameLen == 1000

(* ------------------------- program constants --------------------------- *)
uploadsDir == "Uploads"
downloadsDir == "Downloads"
chunkSize == 32 * 1024
RecvLimit == 1024
RequestOverhead == 39

BlockSize == chunkSize \div BlocksPerChunk
ChunkBlocks == chunkSize \div BlockSize

(* ------------------------------ values -------------------------------- *)
\* A path that names no file, a missing request field, a missing registry
\* entry, the digest of a file that cannot be opened, a failed parse.
NoFile == <<-1>>
NoField == ""
NoFilename == <<"">>
NoEntry == <<>>
None == <<"None", <<>>>>
ValueError == <<"ValueError">>

Names == {"a", "b"}
Dirs == {uploadsDir, downloadsDir}
FilePaths == {<<d, n>> : d \in Dirs, n \in Names}

\* "./././." and so on, LongNameLen - 2 characters of it: with "/a" after
\* it a name for the file "a" that is LongNameLen characters long, which
\* getstr at line 133 accepts.
DotRun == "./."

\* What the user can type as a file name, as path components:
\* "a", "b", "../Uploads/a", the empty string and "./././a".
Filenames == {<<"a">>, <<"b">>, <<"..", "Uploads", "a">>, <<>>, <<DotRun, "a">>}

Clients == {"c1", "c2"}
Raws == {"r1"}
Conns == Clients \cup Raws

Min(x, y) == IF x <= y THEN x ELSE y

Pattern(n) == [i \in 1..n |-> i % 2]
InitContents == {Pattern(n) : n \in 0..MaxBlocks}

(* --------------------------- path handling ----------------------------- *)
RECURSIVE Normalize(_, _)
Normalize(stack, comps) ==
    IF comps = <<>> THEN stack
    ELSE IF Head(comps) = ".."
         THEN Normalize(IF stack = <<>> THEN <<>> ELSE SubSeq(stack, 1, Len(stack) - 1),
                        Tail(comps))
         ELSE IF Head(comps) = DotRun THEN Normalize(stack, Tail(comps))
         ELSE Normalize(Append(stack, Head(comps)), Tail(comps))

\* os.path.join(dir, filename), as the operating system resolves the result.
PathJoin(dir, filename) == Normalize(<<dir>>, filename)

IsDir(p) == Len(p) = 1 /\ p[1] \in Dirs
IsFile(fs, p) == p \in FilePaths /\ fs[p] # NoFile
\* os.path.exists
PathExists(fs, p) == IsDir(p) \/ IsFile(fs, p)

RECURSIVE StrLen(_)
StrLen(comps) ==
    IF comps = <<>> THEN 0
    ELSE (IF Head(comps) = ".." THEN 2 ELSE IF Head(comps) \in Dirs THEN 7
          ELSE IF Head(comps) = DotRun THEN LongNameLen - 2 ELSE 1)
         + (IF Tail(comps) = <<>> THEN 0 ELSE 1 + StrLen(Tail(comps)))

(* ----------------------------- the digest ------------------------------ *)
\* A read that returns one block more than the chunk size.
ReadChunkOver(content, off) ==
    SubSeq(content, off + 1, Min(Len(content), off + ChunkBlocks + 1))

\* f.read(chunkSize) at offset off
ReadChunk(content, off) == SubSeq(content, off + 1, Min(Len(content), off + ChunkBlocks))

RECURSIVE HashUpdate(_, _, _)
HashUpdate(acc, content, off) ==
    IF ReadChunk(content, off) = <<>> THEN acc
    ELSE HashUpdate(acc \o ReadChunk(content, off), content,
                    off + Len(ReadChunk(content, off)))

\* SHA-256 taken as collision free: the digest determines the bytes fed to it.
calculateFileHash(fs, p) ==
    IF ~IsFile(fs, p) THEN None
    ELSE <<"sha256", HashUpdate(<<>>, fs[p], 0)>>

(* ---------------------------- the request ------------------------------ *)
\* json.dumps({"request": "download", "filename": filename}).encode()
Request(filename) ==
    [json |-> TRUE, key |-> "request", op |-> "download", filename |-> filename,
     len |-> RequestOverhead + StrLen(filename)]

\* Payloads a raw TCP peer sends: not JSON, an unknown operation, the
\* operation under another field name, and a request without a file name.
RawPayloads ==
    { [json |-> FALSE, key |-> NoField, op |-> NoField, filename |-> NoFilename, len |-> 5],
      [json |-> TRUE, key |-> "request", op |-> "upload", filename |-> <<"a">>, len |-> 38],
      [json |-> TRUE, key |-> "operation", op |-> "download", filename |-> <<"a">>, len |-> 42],
      [json |-> TRUE, key |-> "request", op |-> "download", filename |-> NoFilename, len |-> 23] }

\* Nothing to read.
NoData == [json |-> FALSE, key |-> NoField, op |-> NoField, filename |-> NoFilename, len |-> 0]

\* The handler reads the operation from the field "operation".
DispatchOperation(fs, data, whole) ==
    IF ~whole \/ ~data.json THEN "exc"
    ELSE IF data.key # "operation" THEN "exc"
    ELSE IF data.op # "download" THEN "ignore"
    ELSE IF data.filename = NoFilename THEN "exc"
    ELSE IF ~PathExists(fs, PathJoin(uploadsDir, data.filename)) THEN "nofile"
    ELSE IF IsDir(PathJoin(uploadsDir, data.filename)) THEN "exc"
    ELSE "stream"

\* Lines 46-56 on the bytes one recv returned: "exc" an exception is raised,
\* "ignore" the operation is not download, "nofile" the path does not exist,
\* "stream" the file is opened for streaming.
Dispatch(fs, data, whole) ==
    IF ~whole \/ ~data.json THEN "exc"
    ELSE IF data.key # "request" THEN "exc"
    ELSE IF data.op # "download" THEN "ignore"
    ELSE IF data.filename = NoFilename THEN "exc"
    ELSE IF ~PathExists(fs, PathJoin(uploadsDir, data.filename)) THEN "nofile"
    ELSE IF IsDir(PathJoin(uploadsDir, data.filename)) THEN "exc"
    ELSE "stream"

(* ------------------------- address resolution -------------------------- *)
\* What the user can type as a peer: a registry name, host:port addresses
\* of the serving process and of a host nobody listens on, and malformed ones.
PeerNames == {"srv"}
GoodAddr == <<"host", "5000">>
DeadAddr == <<"nohost", "5000">>
BadPortAddr == <<"host", "abc">>
NoColon == <<"host">>
Addrs == {GoodAddr, DeadAddr, BadPortAddr, NoColon}
PeerInputs == {<<n>> : n \in PeerNames} \cup Addrs

IsNumeric(s) == s \in {"5000"}

\* Lines 136-138: a registry entry replaces the peer typed.
Lookup(book, peer) ==
    IF Len(peer) = 1 /\ peer[1] \in PeerNames /\ book[peer[1]] # NoEntry
    THEN book[peer[1]] ELSE peer

\* A malformed port falls back to the default port.
ParsePeerDefaultPort(peer) ==
    IF Len(peer) # 2 THEN ValueError
    ELSE IF ~IsNumeric(peer[2]) THEN <<peer[1], "5000">>
    ELSE peer

\* Lines 143-144: peer.split(":") into exactly two parts and int(port).
ParsePeer(peer) ==
    IF Len(peer) # 2 THEN ValueError
    ELSE IF ~IsNumeric(peer[2]) THEN ValueError
    ELSE peer

(* ------------------------------- state --------------------------------- *)
VARIABLES
    mainPc,      \* main flow of the serving process: "ui", "quit", "finishing", "exited"
    listenerPc,  \* listener thread: "none", "starting", "accept", "killed"
    sfs,         \* files of the serving process
    net,         \* per connection: the TCP connection as both ends see it
    hnd,         \* per connection: the handler thread of the serving process
    accepted,    \* number of connections accepted so far
    cli,         \* per Fetch Client: the downloadFileUi invocation
    cfs,         \* per Fetch Client: files of its process
    book,        \* per Fetch Client: address_book.json of its process
    inputs,      \* per Fetch Client: what its user may type (peer, file name)
    rawInputs    \* what the raw peers may send

vars == <<mainPc, listenerPc, sfs, net, hnd, accepted, cli, cfs, book, inputs, rawInputs>>

NoConn ==
    [st |-> "none", req |-> NoData, rest |-> FALSE, cfin |-> FALSE,
     resp |-> <<>>, srv |-> "open", tampered |-> FALSE]

NoHandler ==
    [pc |-> "none", data |-> NoData, whole |-> FALSE, path |-> <<>>, off |-> 0,
     sent |-> <<>>, sends |-> 0, chunks |-> <<>>, closes |-> 0, logged |-> 0,
     ord |-> 0]

IdleClient ==
    [pc |-> "idle", peer |-> <<>>, filename |-> <<>>, addr |-> <<>>,
     connected |-> FALSE, sentReq |-> NoData, received |-> <<>>,
     attempts |-> 0, outcomes |-> <<>>, fs0 |-> [p \in FilePaths |-> NoFile],
     eof |-> FALSE, dlHash |-> None, refHash |-> None]
(* ------------------------------ inputs --------------------------------- *)
BookAddrs == {GoodAddr, BadPortAddr}

\* One invocation that may be given any peer and any file name.
AnyInput == [c \in Clients |-> IF c = "c1" THEN PeerInputs \X Filenames ELSE {}]

\* One invocation for any file name, by registry name.
ServeInput == [c \in Clients |-> IF c = "c1" THEN {<<"srv">>} \X Filenames ELSE {}]

\* Two invocations for two different files of the serving process.
PairInput ==
    [c \in Clients |-> IF c = "c1" THEN {<<(<<"srv">>), (<<"a">>)>>}
                       ELSE {<<GoodAddr, (<<"b">>)>>}]

Fs(ua, ub, da) ==
    [p \in FilePaths |->
        IF p = <<uploadsDir, "a">> THEN ua
        ELSE IF p = <<uploadsDir, "b">> THEN ub
        ELSE IF p = <<downloadsDir, "a">> THEN da ELSE NoFile]

ServerInitFs == {Fs(x, <<1>>, NoFile) : x \in InitContents \cup {NoFile}}

\* The first process holds no copy of "a", an empty one or a full one, and
\* may hold an earlier download of "a"; the second may hold a copy of "b".
ClientInitFs(c) ==
    IF c = "c1"
    THEN {Fs(ref, NoFile, old) :
            ref \in {NoFile, <<>>, Pattern(MaxBlocks)},
            old \in {NoFile, Pattern(MaxBlocks)}}
    ELSE {Fs(NoFile, ref, NoFile) : ref \in {NoFile, <<1>>}}

InitCommon ==
    /\ mainPc = "ui"
    /\ listenerPc = "none"
    /\ net = [k \in Conns |-> NoConn]
    /\ hnd = [k \in Conns |-> NoHandler]
    /\ accepted = 0
    /\ cli = [c \in Clients |-> IdleClient]
    /\ book = [c \in Clients |-> [n \in PeerNames |-> NoEntry]]

Garbage == CHOOSE p \in RawPayloads : ~p.json

\* The Fetch Client given any input; a raw peer that stays silent.
Init ==
    /\ InitCommon
    /\ inputs = AnyInput
    /\ rawInputs = {NoData}
    /\ sfs \in ServerInitFs
    /\ cfs \in {f \in [Clients -> UNION {ClientInitFs(c) : c \in Clients}] :
                 /\ f["c1"] \in ClientInitFs("c1")
                 /\ f["c2"] = Fs(NoFile, NoFile, NoFile)}

\* Two concurrent Fetch Clients; a raw peer that sends garbage.
InitPair ==
    /\ InitCommon
    /\ inputs = PairInput
    /\ rawInputs = {Garbage}
    /\ sfs = Fs(Pattern(MaxBlocks), <<1>>, NoFile)
    /\ cfs \in {f \in [Clients -> UNION {ClientInitFs(c) : c \in Clients}] :
                 /\ f["c1"] \in {Fs(ref, NoFile, NoFile) : ref \in {NoFile, Pattern(MaxBlocks)}}
                 /\ f["c2"] = Fs(NoFile, <<1>>, NoFile)}

(* ------------------- main flow of the serving process ------------------ *)
\* Line 249 returns when the user picks Quit; lines 252-253 then create the
\* listener thread as a daemon thread.
UiQuit ==
    /\ mainPc = "ui"
    /\ mainPc' = "finishing"
    /\ listenerPc' = "starting"
    /\ UNCHANGED <<sfs, net, hnd, accepted, cli, cfs, book, inputs, rawInputs>>

\* How the operating system closes a socket of a process that ends: with a
\* reset when the connection was never accepted or holds unread data.
OsClose(n) ==
    IF n.st = "none" \/ n.srv # "open" THEN n
    ELSE [n EXCEPT !.srv = IF n.st = "backlog" \/ n.req # NoData \/ n.rest
                            THEN "rst" ELSE "fin"]

\* The main thread reaches the end of the module: the interpreter exits and
\* takes the daemon threads (the listener and its handlers) with it.
ProcessExit ==
    /\ mainPc = "finishing"
    /\ mainPc' = "exited"
    /\ listenerPc' = "killed"
    /\ hnd' = [k \in Conns |->
                 IF hnd[k].pc \in {"recv", "stream"}
                 THEN [hnd[k] EXCEPT !.pc = "killed"] ELSE hnd[k]]
    /\ net' = [k \in Conns |-> OsClose(net[k])]
    /\ UNCHANGED <<sfs, accepted, cli, cfs, book, inputs, rawInputs>>

(* ------------------------------ listener ------------------------------- *)
\* Lines 32-35: socket, bind, listen.
startServer ==
    /\ listenerPc = "starting"
    /\ listenerPc' = "accept"
    /\ UNCHANGED <<mainPc, sfs, net, hnd, accepted, cli, cfs, book, inputs, rawInputs>>

\* The listener runs the handler itself and accepts again when it returns.
AcceptInline(k) ==
    /\ listenerPc = "accept"
    /\ net[k].st = "backlog"
    /\ net' = [net EXCEPT ![k].st = "accepted"]
    /\ hnd' = [hnd EXCEPT ![k] = [NoHandler EXCEPT !.pc = "recv", !.ord = accepted + 1]]
    /\ accepted' = accepted + 1
    /\ listenerPc' = "handling"
    /\ UNCHANGED <<mainPc, sfs, cli, cfs, book, inputs, rawInputs>>

\* Lines 38-40: accept one connection, start its handler thread, loop.
Accept(k) ==
    /\ listenerPc = "accept"
    /\ net[k].st = "backlog"
    /\ net' = [net EXCEPT ![k].st = "accepted"]
    /\ hnd' = [hnd EXCEPT ![k] = [NoHandler EXCEPT !.pc = "recv", !.ord = accepted + 1]]
    /\ accepted' = accepted + 1
    /\ listenerPc' = "accept"
    /\ UNCHANGED <<mainPc, sfs, cli, cfs, book, inputs, rawInputs>>

(* ------------------------------- handler ------------------------------- *)
\* The exception is also reported to the peer.
ExceptTellsPeer(h) ==
    [h EXCEPT !.logged = @ + 1, !.sent = @ \o <<0>>, !.sends = @ + 1,
              !.chunks = Append(@, <<0>>)]

\* Lines 57-58: the exception is printed locally.
Except(h) == [h EXCEPT !.logged = @ + 1]

\* The socket is closed on the normal path only.
FinallyNotOnError(h) ==
    [h EXCEPT !.pc = "done", !.closes = IF h.logged > 0 THEN @ ELSE @ + 1]

\* Lines 59-60: clientSock.close().
Finally(h) == [h EXCEPT !.pc = "done", !.closes = @ + 1]

\* The connection after the handler closed its socket.
Closed(n) == [n EXCEPT !.srv = IF n.rest THEN "rst" ELSE "fin"]

\* Line 54 / 56: clientSock.sendall(bytes).
SendAll(h, bytes) ==
    [h EXCEPT !.sent = @ \o bytes, !.sends = @ + 1, !.chunks = Append(@, bytes)]

\* Lines 45-60 up to the first blocking sendall: one recv of at most 1024
\* bytes, which the transport may fill with only part of what was sent.
HRecv(k, whole) ==
    /\ hnd[k].pc = "recv"
    /\ net[k].req # NoData \/ net[k].cfin
    /\ LET data == net[k].req
           all == data # NoData /\ whole /\ data.len <= RecvLimit
           d == IF data = NoData THEN "exc" ELSE Dispatch(sfs, data, all)
           h0 == [hnd[k] EXCEPT !.data = data, !.whole = all]
           n0 == [net[k] EXCEPT !.req = NoData, !.rest = (data # NoData /\ ~all)]
           path == PathJoin(uploadsDir, data.filename)
       IN  /\ data = NoData => whole
           /\ CASE d = "exc" ->
                     /\ hnd' = [hnd EXCEPT ![k] = Finally(Except(h0))]
                     /\ net' = [net EXCEPT ![k] = Closed(n0)]
                [] d = "ignore" ->
                     /\ hnd' = [hnd EXCEPT ![k] = Finally(h0)]
                     /\ net' = [net EXCEPT ![k] = Closed(n0)]
                [] d = "nofile" ->
                     /\ hnd' = [hnd EXCEPT ![k] = Finally(SendAll(h0, <<>>))]
                     /\ net' = [net EXCEPT ![k] = Closed(n0)]
                [] d = "stream" /\ ReadChunk(sfs[path], 0) = <<>> ->
                     /\ hnd' = [hnd EXCEPT ![k] = Finally([h0 EXCEPT !.path = path])]
                     /\ net' = [net EXCEPT ![k] = Closed(n0)]
                [] d = "stream" /\ ReadChunk(sfs[path], 0) # <<>> ->
                     /\ hnd' = [hnd EXCEPT ![k] = [h0 EXCEPT !.pc = "stream", !.path = path]]
                     /\ net' = [net EXCEPT ![k] = n0]
    /\ UNCHANGED <<mainPc, listenerPc, sfs, accepted, cli, cfs, book, inputs, rawInputs>>

\* Lines 53-54: sendall of the chunk just read and the next read; the loop
\* ends, and the socket is closed, when that read returns nothing.  sendall
\* raises when the peer has closed the connection.
HSend(k) ==
    /\ hnd[k].pc = "stream"
    /\ LET h == hnd[k]
           chunk == ReadChunk(sfs[h.path], h.off)
           h1 == [SendAll(h, chunk) EXCEPT !.off = @ + Len(chunk)]
       IN  IF net[k].cfin
           THEN /\ hnd' = [hnd EXCEPT ![k] = Finally(Except(h))]
                /\ net' = [net EXCEPT ![k] = Closed(@)]
           ELSE IF ReadChunk(sfs[h.path], h1.off) = <<>>
           THEN /\ hnd' = [hnd EXCEPT ![k] = Finally(h1)]
                /\ net' = [net EXCEPT ![k] = Closed([@ EXCEPT !.resp = @ \o chunk])]
           ELSE /\ hnd' = [hnd EXCEPT ![k] = h1]
                /\ net' = [net EXCEPT ![k].resp = @ \o chunk]
    /\ UNCHANGED <<mainPc, listenerPc, sfs, accepted, cli, cfs, book, inputs, rawInputs>>

\* Lines 53-54 raising an I/O error (a failed read, a failed send).
HFault(k) ==
    /\ hnd[k].pc = "stream"
    /\ hnd' = [hnd EXCEPT ![k] = Finally(Except(@))]
    /\ net' = [net EXCEPT ![k] = Closed(@)]
    /\ UNCHANGED <<mainPc, listenerPc, sfs, accepted, cli, cfs, book, inputs, rawInputs>>

(* ------------------------------ raw peers ------------------------------ *)
\* A TCP peer that is not a Fetch Client connects and sends p, or nothing.
RawConnect(r, p) ==
    /\ p \in rawInputs
    /\ listenerPc = "accept"
    /\ net[r].st = "none"
    /\ net' = [net EXCEPT ![r] = [NoConn EXCEPT !.st = "backlog", !.req = p]]
    /\ UNCHANGED <<mainPc, listenerPc, sfs, hnd, accepted, cli, cfs, book, inputs, rawInputs>>

\* The raw peer closes its end.
RawClose(r) ==
    /\ net[r].st # "none"
    /\ ~net[r].cfin
    /\ net' = [net EXCEPT ![r].cfin = TRUE]
    /\ UNCHANGED <<mainPc, listenerPc, sfs, hnd, accepted, cli, cfs, book, inputs, rawInputs>>

\* Bytes in flight to a Fetch Client are altered (a faulty or hostile path).
Tamper(c, i) ==
    /\ ~net[c].tampered
    /\ i \in 1..Len(net[c].resp)
    /\ net' = [net EXCEPT ![c].resp[i] = 1 - @, ![c].tampered = TRUE]
    /\ UNCHANGED <<mainPc, listenerPc, sfs, hnd, accepted, cli, cfs, book, inputs, rawInputs>>
(* ---------------------------- Fetch Client ----------------------------- *)
\* The outcome is written a second time on the way out.
ReportTwice(cl, outcome) ==
    [cl EXCEPT !.outcomes = Append(Append(@, outcome), outcome), !.pc = "done"]

\* Lines 164, 166, 170: one line of outcome is shown; lines 172-174 end the
\* invocation.
Report(cl, outcome) == [cl EXCEPT !.outcomes = Append(@, outcome), !.pc = "done"]

\* Any file that can be read passes.
VerifyReadable(fs, filename) ==
    IF calculateFileHash(fs, PathJoin(downloadsDir, filename)) # None
    THEN "success" ELSE "verifyfail"

\* Lines 161-163: the digest of the file just written against the digest of
\* the file of the same name in the Uploads directory.
Verify(fs, filename) ==
    IF calculateFileHash(fs, PathJoin(downloadsDir, filename))
         = calculateFileHash(fs, PathJoin(uploadsDir, filename))
    THEN "success" ELSE "verifyfail"

\* Lines 108-124: a registry entry is added from the menu.
addPeerUi(c, name, addr) ==
    /\ cli[c].pc = "idle"
    /\ \E i \in inputs[c] : i[1] = <<name>>
    /\ book[c][name] # addr
    /\ book' = [book EXCEPT ![c][name] = addr]
    /\ UNCHANGED <<mainPc, listenerPc, sfs, net, hnd, accepted, cli, cfs, inputs, rawInputs>>

\* Lines 131-144: the peer and the file name are read, the peer is looked up
\* in the registry and split into host and port.
CStart(c, peer, filename) ==
    /\ cli[c].pc = "idle"
    /\ <<peer, filename>> \in inputs[c]
    /\ LET addr == ParsePeer(Lookup(book[c], peer))
           c0 == [cli[c] EXCEPT !.peer = peer, !.filename = filename, !.fs0 = cfs[c]]
       IN  cli' = [cli EXCEPT ![c] = IF addr = ValueError THEN Report(c0, "error")
                                     ELSE [c0 EXCEPT !.pc = "connect", !.addr = addr]]
    /\ UNCHANGED <<mainPc, listenerPc, sfs, net, hnd, accepted, cfs, book, inputs, rawInputs>>

\* Lines 147-148: the connection is established when the serving process
\* listens at the address, and refused otherwise.
CConnect(c) ==
    /\ cli[c].pc = "connect"
    /\ LET c0 == [cli[c] EXCEPT !.attempts = @ + 1]
       IN  IF cli[c].addr = GoodAddr /\ listenerPc = "accept"
           THEN /\ net' = [net EXCEPT ![c] = [NoConn EXCEPT !.st = "backlog"]]
                /\ cli' = [cli EXCEPT ![c] = [c0 EXCEPT !.pc = "send", !.connected = TRUE]]
           ELSE /\ cli' = [cli EXCEPT ![c] = Report(c0, "error")]
                /\ net' = net
    /\ UNCHANGED <<mainPc, listenerPc, sfs, hnd, accepted, cfs, book, inputs, rawInputs>>

\* The local file is opened for appending.
CSendOpenAppend(c) ==
    /\ cli[c].pc = "send"
    /\ LET filePath == PathJoin(downloadsDir, cli[c].filename)
           request == Request(cli[c].filename)
       IN  IF net[c].srv = "rst"
           THEN /\ cli' = [cli EXCEPT ![c] = Report(@, "error")]
                /\ net' = [net EXCEPT ![c].cfin = TRUE]
                /\ cfs' = cfs
           ELSE IF filePath \notin FilePaths
           THEN /\ cli' = [cli EXCEPT ![c] = Report([@ EXCEPT !.sentReq = request], "error")]
                /\ net' = [net EXCEPT ![c].req = request, ![c].cfin = TRUE]
                /\ cfs' = cfs
           ELSE /\ cli' = [cli EXCEPT ![c].sentReq = request, ![c].pc = "recv"]
                /\ net' = [net EXCEPT ![c].req = request]
                /\ cfs' = [cfs EXCEPT ![c][filePath] = IF @ = NoFile THEN <<>> ELSE @]
    /\ UNCHANGED <<mainPc, listenerPc, sfs, hnd, accepted, book, inputs, rawInputs>>

\* Lines 149-154: the request is sent in one sendall and the local file is
\* opened for writing, which creates or truncates it.  Leaving the with
\* block on an exception closes the socket.
CSendOpen(c) ==
    /\ cli[c].pc = "send"
    /\ LET filePath == PathJoin(downloadsDir, cli[c].filename)
           request == Request(cli[c].filename)
       IN  IF net[c].srv = "rst"
           THEN /\ cli' = [cli EXCEPT ![c] = Report(@, "error")]
                /\ net' = [net EXCEPT ![c].cfin = TRUE]
                /\ cfs' = cfs
           ELSE IF filePath \notin FilePaths
           THEN /\ cli' = [cli EXCEPT ![c] = Report([@ EXCEPT !.sentReq = request], "error")]
                /\ net' = [net EXCEPT ![c].req = request, ![c].cfin = TRUE]
                /\ cfs' = cfs
           ELSE /\ cli' = [cli EXCEPT ![c].sentReq = request, ![c].pc = "recv"]
                /\ net' = [net EXCEPT ![c].req = request]
                /\ cfs' = [cfs EXCEPT ![c][filePath] = <<>>]
    /\ UNCHANGED <<mainPc, listenerPc, sfs, hnd, accepted, book, inputs, rawInputs>>

\* Lines 155-158: one recv of at most chunkSize bytes returned n blocks,
\* which are appended to the local file.
CRecvChunk(c, n) ==
    /\ cli[c].pc = "recv"
    /\ n \in 1..Min(Len(net[c].resp), ChunkBlocks)
    /\ LET chunk == SubSeq(net[c].resp, 1, n)
           filePath == PathJoin(downloadsDir, cli[c].filename)
       IN  /\ cfs' = [cfs EXCEPT ![c][filePath] = @ \o chunk]
           /\ cli' = [cli EXCEPT ![c].received = @ \o chunk]
           /\ net' = [net EXCEPT ![c].resp = SubSeq(@, n + 1, Len(@))]
    /\ UNCHANGED <<mainPc, listenerPc, sfs, hnd, accepted, book, inputs, rawInputs>>

\* Line 155 raises: the connection was reset.  The file keeps what was
\* written; line 170 reports the exception.
CRecvReset(c) ==
    /\ cli[c].pc = "recv"
    /\ net[c].srv = "rst"
    /\ cli' = [cli EXCEPT ![c] = Report(@, "error")]
    /\ net' = [net EXCEPT ![c].cfin = TRUE]
    /\ UNCHANGED <<mainPc, listenerPc, sfs, hnd, accepted, cfs, book, inputs, rawInputs>>

\* The exception handler removes the partial file.
CRecvFaultCleansUp(c) ==
    /\ cli[c].pc = "recv"
    /\ net[c].srv # "rst"
    /\ cli' = [cli EXCEPT ![c] = Report(@, "error")]
    /\ net' = [net EXCEPT ![c].cfin = TRUE]
    /\ cfs' = [cfs EXCEPT ![c][PathJoin(downloadsDir, cli[c].filename)] = NoFile]
    /\ UNCHANGED <<mainPc, listenerPc, sfs, hnd, accepted, book, inputs, rawInputs>>

\* Lines 155-158 raise for another reason (the network fails, the write
\* fails) while the connection is not reset: handled like a reset.
CRecvFault(c) ==
    /\ cli[c].pc = "recv"
    /\ net[c].srv # "rst"
    /\ cli' = [cli EXCEPT ![c] = Report(@, "error")]
    /\ net' = [net EXCEPT ![c].cfin = TRUE]
    /\ UNCHANGED <<mainPc, listenerPc, sfs, hnd, accepted, cfs, book, inputs, rawInputs>>

\* Line 155 returns no bytes: the peer closed.  Lines 160-167 compare the
\* digests and remove the local file when they differ.
CFinish(c) ==
    /\ cli[c].pc = "recv"
    /\ net[c].resp = <<>>
    /\ net[c].srv = "fin"
    /\ LET filename == cli[c].filename
           filePath == PathJoin(downloadsDir, filename)
           c0 == [cli[c] EXCEPT
                    !.eof = TRUE,
                    !.dlHash = calculateFileHash(cfs[c], filePath),
                    !.refHash = calculateFileHash(cfs[c], PathJoin(uploadsDir, filename))]
       IN  /\ cli' = [cli EXCEPT ![c] = Report(c0, Verify(cfs[c], filename))]
           /\ cfs' = IF Verify(cfs[c], filename) = "success" THEN cfs
                     ELSE [cfs EXCEPT ![c][filePath] = NoFile]
    /\ net' = [net EXCEPT ![c].cfin = TRUE]
    /\ UNCHANGED <<mainPc, listenerPc, sfs, hnd, accepted, book, inputs, rawInputs>>

(* --------------------------- specification ----------------------------- *)
Next ==
    \/ UiQuit
    \/ ProcessExit
    \/ startServer
    \/ \E k \in Conns : Accept(k)
    \/ \E k \in Conns, whole \in BOOLEAN : HRecv(k, whole)
    \/ \E k \in Conns : HSend(k)
    \/ \E k \in Conns : HFault(k)
    \/ \E r \in Raws, p \in RawPayloads \cup {NoData} : RawConnect(r, p)
    \/ \E r \in Raws : RawClose(r)
    \/ \E c \in Clients, i \in 1..MaxBlocks : Tamper(c, i)
    \/ \E c \in Clients, n \in PeerNames, a \in BookAddrs : addPeerUi(c, n, a)
    \/ \E c \in Clients, p \in PeerInputs, f \in Filenames : CStart(c, p, f)
    \/ \E c \in Clients : CConnect(c)
    \/ \E c \in Clients : CSendOpen(c)
    \/ \E c \in Clients, n \in 1..MaxBlocks : CRecvChunk(c, n)
    \/ \E c \in Clients : CRecvReset(c)
    \/ \E c \in Clients : CRecvFault(c)
    \/ \E c \in Clients : CFinish(c)

Spec == Init /\ [][Next]_vars

\* The handler given any payload; one Fetch Client that asks the serving
\* process for any file name.
InitServe ==
    /\ InitCommon
    /\ inputs = ServeInput
    /\ rawInputs = RawPayloads \cup {NoData}
    /\ sfs \in ServerInitFs
    /\ cfs = [c \in Clients |-> IF c = "c1" THEN Fs(Pattern(MaxBlocks), NoFile, NoFile)
                                 ELSE Fs(NoFile, NoFile, NoFile)]

SpecServe == InitServe /\ [][Next]_vars

SpecPair == InitPair /\ [][Next]_vars

\* Lines 149-167 of one invocation: a blocking call whose result is
\* available returns, and the thread goes on.
FetchProgress(c) ==
    \/ CSendOpen(c)
    \/ \E n \in 1..MaxBlocks : CRecvChunk(c, n)
    \/ CRecvReset(c)
    \/ CFinish(c)

\* One Fetch Client that asks the serving process for any file name, and a
\* raw peer that connects and sends nothing.
InitFetch ==
    /\ InitCommon
    /\ inputs = ServeInput
    /\ rawInputs = {NoData}
    /\ sfs \in ServerInitFs
    /\ cfs = [c \in Clients |-> IF c = "c1" THEN Fs(Pattern(MaxBlocks), NoFile, NoFile)
                                 ELSE Fs(NoFile, NoFile, NoFile)]

\* The thread of every Fetch Client is scheduled.
SpecFetch ==
    /\ InitFetch
    /\ [][Next]_vars
    /\ \A c \in Clients : WF_vars(FetchProgress(c))
(* ------------------------------ properties ----------------------------- *)
DlPath(c) == PathJoin(downloadsDir, cli[c].filename)
RefPath(c) == PathJoin(uploadsDir, cli[c].filename)
Outcome(c) == IF cli[c].outcomes = <<>> THEN "none" ELSE cli[c].outcomes[Len(cli[c].outcomes)]

\* The handler of c's connection served c's whole request, without an
\* exception, to the end of the file, and nothing altered the bytes in flight.
ServedCleanly(c) ==
    /\ cli[c].pc = "done"
    /\ cli[c].eof
    /\ hnd[c].pc = "done"
    /\ hnd[c].whole
    /\ hnd[c].logged = 0
    /\ ~net[c].tampered

\* C1: for a file F of the served directory of a running listener, a Fetch
\* Client invocation that downloads F ends with a local copy in the downloads
\* directory identical to F and with the digest comparison reporting success.
C1_DownloadOfServedFileSucceeds ==
    \A c \in Clients :
        (ServedCleanly(c) /\ IsFile(sfs, RefPath(c)))
            => /\ Outcome(c) = "success"
               /\ IsFile(cfs[c], DlPath(c))
               /\ cfs[c][DlPath(c)] = sfs[RefPath(c)]

\* C2: for a file name that is not in the served directory the handler sends
\* zero bytes and closes, the Fetch Client receives a stream of length 0, and
\* the outcome it reports is not-found, not a verification failure.
C2_MissingFileReportedNotFound ==
    \A c \in Clients :
        (ServedCleanly(c) /\ ~PathExists(sfs, RefPath(c)))
            => /\ hnd[c].sent = <<>>
               /\ hnd[c].closes = 1
               /\ cli[c].received = <<>>
               /\ Outcome(c) = "notfound"

C4_ListenerRunsWhileUiActive ==
    mainPc = "ui" => listenerPc = "accept"
\* C5: no handler stops the listener from accepting: once the listener
\* accepts, every step of the system other than the exit of the process
\* (a handler that aborts, a handler that stays blocked, an accept) leaves
\* it accepting.
C5_HandlersNeverStopListener ==
    [][(listenerPc = "accept" /\ mainPc' = mainPc) => listenerPc' = "accept"]_vars

\* C5 witness: one handler has aborted on an exception, another is blocked
\* in recv on a peer that sent nothing, and a connection accepted after both
\* had its handler run to completion.
C5_Witness ==
    \E k1, k2, k3 \in Conns :
        /\ hnd[k1].pc = "done" /\ hnd[k1].logged = 1
        /\ hnd[k2].pc = "recv"
        /\ hnd[k3].pc = "done" /\ hnd[k3].logged = 0 /\ hnd[k3].sent # <<>>
        /\ hnd[k3].ord > hnd[k1].ord
        /\ hnd[k3].ord > hnd[k2].ord
        /\ listenerPc = "accept"

\* C6: two Fetch Client invocations that run concurrently against the same
\* listener for two different files of the served directory both end in
\* success.
C6_ConcurrentDownloadsBothSucceed ==
    (/\ \A c \in Clients : ServedCleanly(c) /\ IsFile(sfs, RefPath(c))
     /\ cli["c1"].filename # cli["c2"].filename)
        => \A c \in Clients : Outcome(c) = "success"

\* C7: every handler invocation that has ended has closed its connection
\* exactly once, and no handler closes its connection before it ends.
C7_HandlerClosesExactlyOnce ==
    \A k \in Conns :
        /\ hnd[k].pc = "done" => hnd[k].closes = 1
        /\ hnd[k].pc # "done" => hnd[k].closes = 0

\* C7 witness: handlers have ended by an exception, by not-found or an
\* ignored operation, and by streaming a file to its end.
C7_Witness ==
    /\ hnd["r1"].pc = "done" /\ hnd["r1"].logged = 1
    /\ hnd["c1"].pc = "done" /\ hnd["c1"].logged = 0 /\ hnd["c1"].sent # <<>>

\* The bytes a handler read are no download request: they do not parse, the
\* field "request" is missing or is not "download", or no file name is given.
NoDownloadRequest(h) ==
    \/ ~h.whole
    \/ ~h.data.json
    \/ h.data.key # "request"
    \/ h.data.op # "download"
    \/ h.data.filename = NoFilename

\* C8: a handler whose payload does not parse as a request, or whose
\* operation is not download, sends nothing on the connection before it
\* closes it.
C8_MalformedRequestGetsNoBytes ==
    \A k \in Conns :
        (hnd[k].pc = "done" /\ NoDownloadRequest(hnd[k]))
            => /\ hnd[k].sent = <<>>
               /\ hnd[k].sends = 0
               /\ net[k].resp = <<>>
               /\ hnd[k].closes = 1

\* C8 witness: a payload that is not JSON was read and answered by closing.
C8_Witness ==
    \E k \in Conns :
        /\ hnd[k].pc = "done"
        /\ hnd[k].data # NoData
        /\ ~hnd[k].data.json
        /\ net[k].srv # "open"

IsPrefix(s, t) == Len(s) <= Len(t) /\ s = SubSeq(t, 1, Len(s))

\* The handler read a whole request whose field named by key is "download"
\* and whose file name is a file of the served directory.
DownloadRequestUnder(h, key) ==
    /\ h.pc \in {"stream", "done", "killed"}
    /\ h.whole
    /\ h.data.json
    /\ h.data.key = key
    /\ h.data.op = "download"
    /\ h.data.filename # NoFilename
    /\ IsFile(sfs, PathJoin(uploadsDir, h.data.filename))

\* The handler opened the file the request names and streams it: what it
\* has sent is a prefix of the file, and the whole file once it has ended
\* without an exception.
StreamsFile(h) ==
    /\ h.path = PathJoin(uploadsDir, h.data.filename)
    /\ IsPrefix(h.sent, sfs[PathJoin(uploadsDir, h.data.filename)])
    /\ (h.pc = "done" /\ h.logged = 0) => h.sent = sfs[PathJoin(uploadsDir, h.data.filename)]

\* C9 as stated: the handler dispatches on the fields operation and
\* filename, and these are the fields the Fetch Client sends.
C9_FieldsAreOperationAndFilename ==
    /\ \A k \in Conns : DownloadRequestUnder(hnd[k], "operation") => StreamsFile(hnd[k])
    /\ \A c \in Clients : cli[c].sentReq # NoData => cli[c].sentReq.key = "operation"

\* C9 as amended: the handler dispatches on the fields request and filename,
\* and these are the fields the Fetch Client sends.
C9_FieldsAreRequestAndFilename ==
    /\ \A k \in Conns : DownloadRequestUnder(hnd[k], "request") => StreamsFile(hnd[k])
    /\ \A c \in Clients :
          cli[c].sentReq # NoData
              => /\ cli[c].sentReq.key = "request"
                 /\ cli[c].sentReq.op = "download"
                 /\ cli[c].sentReq.filename = cli[c].filename

\* C9 witness: a Fetch Client's request was read whole by a handler, which
\* streamed a file of more than one chunk to its end.
C9_Witness ==
    /\ DownloadRequestUnder(hnd["c1"], "request")
    /\ hnd["c1"].data = cli["c1"].sentReq
    /\ hnd["c1"].pc = "done"
    /\ hnd["c1"].sends > 1
    /\ hnd["c1"].sent = sfs[<<uploadsDir, "a">>]

\* The peer, after the registry lookup, is not a host and an integer port.
Unresolvable(c) ==
    LET peer == Lookup(book[c], cli[c].peer)
    IN  Len(peer) # 2 \/ peer[2] \notin {"5000"}

\* C10: when the peer cannot be resolved to a host and an integer port, the
\* Fetch Client reports an error without opening a connection, without
\* sending a request and without changing any file.
C10_UnresolvedPeerTouchesNothing ==
    \A c \in Clients :
        (cli[c].pc # "idle" /\ Unresolvable(c))
            => /\ cli[c].pc = "done"
               /\ cli[c].outcomes = <<"error">>
               /\ cli[c].attempts = 0
               /\ ~cli[c].connected
               /\ cli[c].sentReq = NoData
               /\ net[c] = NoConn
               /\ cfs[c] = cli[c].fs0

\* C10 witness: an invocation for a file that exists in the downloads
\* directory has ended on a registry entry with a malformed port.
C10_Witness ==
    /\ cli["c1"].pc = "done"
    /\ cli["c1"].peer = <<"srv">>
    /\ book["c1"]["srv"] = BadPortAddr
    /\ cli["c1"].filename = <<"a">>
    /\ IsFile(cfs["c1"], <<downloadsDir, "a">>)
    /\ listenerPc = "accept"
\* The local file of c's invocation was opened (line 154) and the receive
\* loop ended in an exception before any digest was computed.
FailedWhileReceiving(c) ==
    /\ cli[c].pc = "done"
    /\ cli[c].sentReq # NoData
    /\ DlPath(c) \in FilePaths
    /\ ~cli[c].eof

\* C11: the Fetch Client deletes the local file only on a digest mismatch:
\* after an exception between the creation of the local file and the digest
\* comparison the outcome is an error and the local file holds exactly the
\* bytes received so far, every other file being as it was.
C11_PartialFileKeptOnException ==
    \A c \in Clients :
        /\ FailedWhileReceiving(c)
              => /\ cli[c].outcomes = <<"error">>
                 /\ cfs[c] = [cli[c].fs0 EXCEPT ![DlPath(c)] = cli[c].received]
        /\ \A p \in FilePaths :
              (cli[c].pc # "idle" /\ IsFile(cli[c].fs0, p) /\ ~IsFile(cfs[c], p))
                  => p = DlPath(c) /\ Outcome(c) = "verifyfail"

\* C11 witness: the receive loop raised after at least one block had been
\* written over an older file of that name.
C11_Witness ==
    /\ FailedWhileReceiving("c1")
    /\ cli["c1"].received # <<>>
    /\ IsFile(cli["c1"].fs0, DlPath("c1"))
    /\ cli["c1"].fs0[DlPath("c1")] # cli["c1"].received
    /\ cfs["c1"][DlPath("c1")] = cli["c1"].received
TerminalOutcomes == {"success", "verifyfail", "error"}

\* An invocation that has ended reported one outcome, one that has not
\* ended reported none.
OneOutcome ==
    \A c \in Clients :
        /\ cli[c].pc = "done"
              => Len(cli[c].outcomes) = 1 /\ cli[c].outcomes[1] \in TerminalOutcomes
        /\ cli[c].pc # "done" => cli[c].outcomes = <<>>

\* C12: a Fetch Client invocation reports exactly one outcome, which is
\* success, verification failure or error, never two and never none at its
\* end; and when the peer has closed the connection (orderly or by a reset)
\* the invocation terminates.
C12_OneOutcomeAndTermination ==
    /\ []OneOutcome
    /\ \A c \in Clients :
          (cli[c].pc \in {"send", "recv"} /\ net[c].srv # "open") ~> (cli[c].pc = "done")

\* C12 witness: the peer closed, the invocation read to the end of the
\* stream and ended with one outcome.
C12_Witness ==
    /\ cli["c1"].pc = "done"
    /\ cli["c1"].eof
    /\ net["c1"].srv = "fin"
    /\ Len(cli["c1"].outcomes) = 1
    /\ cli["c1"].outcomes[1] \in TerminalOutcomes
\* C13: the request a Fetch Client sent is at most 1024 bytes long, and the
\* handler of its connection, once it has read the request, has the whole
\* message, for every file name and every split into deliveries.
C13_RequestReadWhole ==
    \A c \in Clients :
        /\ cli[c].sentReq # NoData => cli[c].sentReq.len <= RecvLimit
        /\ (hnd[c].data # NoData /\ hnd[c].data = cli[c].sentReq) => hnd[c].whole
RECURSIVE Concat(_)
Concat(seqs) == IF seqs = <<>> THEN <<>> ELSE Head(seqs) \o Concat(Tail(seqs))

\* The number of chunks of a file of n blocks.
ChunkCount(n) == (n + ChunkBlocks - 1) \div ChunkBlocks

\* C14: for a file of the served directory, every chunk the handler writes
\* is non-empty and at most 32768 bytes, the chunks in send order are the
\* file's content from its start, all of it once the handler has closed
\* without an exception (no chunk for an empty file, one for a file of at
\* most one chunk, the last one shorter when the size is not a multiple);
\* the Fetch Client's file holds the bytes received in arrival order, which
\* with the bytes still in flight are the bytes sent.
C14_ChunksConcatenateToContent ==
    /\ \A k \in Conns :
          DownloadRequestUnder(hnd[k], "request")
              => LET h == hnd[k]
                     content == sfs[PathJoin(uploadsDir, h.data.filename)]
                 IN  /\ \A i \in 1..Len(h.chunks) :
                           /\ h.chunks[i] # <<>>
                           /\ Len(h.chunks[i]) * BlockSize <= chunkSize
                     /\ h.sends = Len(h.chunks)
                     /\ Concat(h.chunks) = h.sent
                     /\ IsPrefix(Concat(h.chunks), content)
                     /\ (h.pc = "done" /\ h.logged = 0)
                           => /\ Concat(h.chunks) = content
                              /\ Len(h.chunks) = ChunkCount(Len(content))
    /\ \A c \in Clients :
          /\ cli[c].pc = "recv" => cfs[c][DlPath(c)] = cli[c].received
          /\ (cli[c].pc = "done" /\ Outcome(c) = "success" /\ cli[c].eof)
                => cfs[c][DlPath(c)] = cli[c].received
          /\ ~net[c].tampered => cli[c].received \o net[c].resp = hnd[c].sent
          /\ (ServedCleanly(c) /\ DownloadRequestUnder(hnd[c], "request"))
                => cli[c].received = sfs[PathJoin(uploadsDir, hnd[c].data.filename)]

\* C14 witness: a file whose size is not a multiple of the chunk size was
\* sent in full chunks and a shorter last one, and the Fetch Client's file
\* holds the content when the last chunk has been written to it.
C14_Witness ==
    LET h == hnd["c1"]
    IN  /\ DownloadRequestUnder(h, "request")
        /\ h.pc = "done" /\ h.logged = 0
        /\ Len(h.chunks) >= 2
        /\ \A i \in 1..(Len(h.chunks) - 1) : Len(h.chunks[i]) = ChunkBlocks
        /\ Len(h.chunks[Len(h.chunks)]) < ChunkBlocks
        /\ cli["c1"].pc = "recv"
        /\ cli["c1"].filename = <<"a">>
        /\ ~net["c1"].tampered
        /\ cfs["c1"][DlPath("c1")] = sfs[PathJoin(uploadsDir, h.data.filename)]
\* C15: when the downloading node's served directory held no file of the
\* requested name, the invocation does not report success: at the
\* comparison the digest of the written file is a digest, the reference
\* digest is the sentinel, verification fails and the written file is
\* deleted.
C15_NoReferenceNeverSucceeds ==
    \A c \in Clients :
        (cli[c].pc = "done" /\ ~IsFile(cli[c].fs0, RefPath(c)))
            => /\ Outcome(c) # "success"
               /\ cli[c].eof
                     => /\ cli[c].dlHash # None
                        /\ cli[c].refHash = None
                        /\ Outcome(c) = "verifyfail"
                        /\ ~IsFile(cfs[c], DlPath(c))
\* C16: once the request is sent and the local file opened, the file holds
\* only what this invocation received, nothing before the first byte, the
\* other files being as they were; after a verification failure no file of
\* that name is in the downloads directory, whatever was there before; an
\* invocation that ended before sending its request (at address resolution,
\* at connect) left every file as it was.
C16_TruncatesThenDeletesOnFailure ==
    \A c \in Clients :
        /\ cli[c].pc = "recv"
              => cfs[c] = [cli[c].fs0 EXCEPT ![DlPath(c)] = cli[c].received]
        /\ (cli[c].pc = "done" /\ Outcome(c) = "verifyfail")
              => /\ ~IsFile(cfs[c], DlPath(c))
                 /\ \A p \in FilePaths \ {DlPath(c)} : cfs[c][p] = cli[c].fs0[p]
        /\ (cli[c].pc = "done" /\ cli[c].sentReq = NoData) => cfs[c] = cli[c].fs0

\* A copy of the reference file was in the downloads directory when the
\* invocation of c began.
HadVerifiedCopy(c) ==
    /\ IsFile(cli[c].fs0, DlPath(c))
    /\ IsFile(cli[c].fs0, RefPath(c))
    /\ DlPath(c) # RefPath(c)
    /\ cli[c].fs0[DlPath(c)] = cli[c].fs0[RefPath(c)]

\* C16 witness: a verified copy was in the downloads directory, the new
\* download failed verification, and no file of that name is left.
C16_Witness ==
    /\ HadVerifiedCopy("c1")
    /\ cli["c1"].pc = "done"
    /\ Outcome("c1") = "verifyfail"
    /\ ~IsFile(cfs["c1"], DlPath("c1"))
\* The invocation of c opened its local file (line 154).
OpenedLocalFile(c) == cli[c].sentReq # NoData /\ DlPath(c) \in FilePaths

\* C17: the file an invocation writes is not the reference file it compares
\* against, whatever file name was entered: no file of the served directory
\* is created, truncated, modified or deleted by the invocation, and success
\* is not the result of comparing the written file with itself.
C17_WrittenFileIsNotReference ==
    \A c \in Clients :
        /\ OpenedLocalFile(c) => DlPath(c) # RefPath(c)
        /\ cli[c].pc # "idle"
              => \A n \in Names : cfs[c][<<uploadsDir, n>>] = cli[c].fs0[<<uploadsDir, n>>]
        /\ Outcome(c) = "success" => DlPath(c) # RefPath(c)
====
